---- MODULE Spec2Model ----
(***************************************************************************)
(* A model of src/forex.py: the TradingModel class (fetch_data,            *)
(* generate_signal, calculate_lot_size) and the presentation run main().   *)
(*                                                                         *)
(* Units.  Prices and pip_value are held in cents, risk_percent in tenths  *)
(* of a percent, RSI in points and the lot size in hundredths of a lot, so *)
(* that the decimal arithmetic of the program is exact integer arithmetic  *)
(* here.                                                                   *)
(*                                                                         *)
(* The market-data provider (yfinance) and the indicator library (ta) are  *)
(* outside the repository.  What the provider returns is an input of       *)
(* fetch_data and is enumerated (Responses).  The numbers the indicator    *)
(* library computes are opaque: they are read from a fixed market history  *)
(* (MarketPoints) by timestamp.  Which positions the library leaves        *)
(* missing is modelled as the library does it for window=14 and            *)
(* fillna=False: rolling(14).mean() for SMA, ewm(span=14, min_periods=14)  *)
(* for EMA, and for RSI an ewm(min_periods=14) over the price changes with *)
(* the missing changes replaced by 0.                                      *)
(***************************************************************************)
EXTENDS Integers, Sequences, FiniteSets, TLC

VARIABLES params, data, last, fetched, pc, shown, calls

vars == <<params, data, last, fetched, pc, shown, calls>>

\* ------------------------------------------------------------------ bounds

\* Longest series the provider returns.
MaxBars == 16

\* Latest timestamp at which a returned series starts.
MaxStart == 8

\* ------------------------------------------------------- program constants

Window == 14

RSI_OVERSOLD == 30

RSI_OVERBOUGHT == 70

\* A missing cell of a data frame (numpy.nan); every real cell is positive.
NaN == -1

\* ------------------------------------------------------------------ inputs

\* The market: what is quoted, and what the indicator library computes, at
\* each timestamp (timestamp t reads entry (t % Len) + 1).
MarketPoints ==
  << [rsi |-> 50, close |-> 10000, sma |-> 10000, ema |-> 10000],
     [rsi |-> 30, close |->  9000, sma |->  9500, ema |->  9400],
     [rsi |-> 75, close |->  9000, sma |->  9500, ema |->  9400],
     [rsi |-> 25, close |-> 11000, sma |-> 10000, ema |-> 10100],
     [rsi |-> 30, close |-> 11000, sma |-> 10000, ema |-> 10200],
     [rsi |-> 70, close |->  9000, sma |-> 10000, ema |->  9900],
     [rsi |-> 25, close |-> 10000, sma |-> 10000, ema |-> 10000],
     [rsi |-> 75, close |-> 10500, sma |-> 10500, ema |-> 10400],
     [rsi |-> 25, close |->  9000, sma |-> 10000, ema |->  9800],
     [rsi |-> 75, close |-> 11000, sma |-> 10000, ema |-> 10300],
     [rsi |-> 70, close |-> 11000, sma |-> 10500, ema |-> 10600] >>

PointAt(t) == MarketPoints[(t % Len(MarketPoints)) + 1]

\* TradingParameters as the sidebar accepts them (balance >= 100, risk
\* 0.1..5.0 %, stop loss >= 10 pips, pip value >= 0.01).
ParamSets ==
  { [account_balance |-> 1000, risk_percent |-> 10, stop_loss_pips |-> 50, pip_value |-> 1000],
    [account_balance |->  100, risk_percent |->  1, stop_loss_pips |-> 10, pip_value |->    1],
    [account_balance |-> 1000, risk_percent |-> 10, stop_loss_pips |-> 80, pip_value |->  100],
    [account_balance |-> 2500, risk_percent |-> 50, stop_loss_pips |-> 30, pip_value |->  700] }

\* What one call of yf.download does: it raises, or it returns a series of n
\* bars starting at timestamp start, in which at most one bar has a missing
\* value (gap = its position, 0 for none) in column col.
CleanResponses ==
  { [kind |-> "series", n |-> n, start |-> s, gap |-> 0, col |-> "Close"] :
      n \in 0..MaxBars, s \in 0..MaxStart }

GappedResponses ==
  { [kind |-> "series", n |-> n, start |-> 0, gap |-> g, col |-> c] :
      n \in 1..MaxBars, g \in 1..MaxBars, c \in {"Close", "Open"} }

Responses ==
  { [kind |-> "raise", n |-> 0, start |-> 0, gap |-> 0, col |-> "Close"] }
    \cup CleanResponses
    \cup { r \in GappedResponses : r.gap <= r.n }

\* ------------------------------------------------------------- data frames

None == [none |-> TRUE, rows |-> <<>>]

Frame(rows) == [none |-> FALSE, rows |-> rows]

Absent == <<>>

Some(x) == <<x>>

\* yf.download(ticker, period, interval): the rows of the returned frame.
\* Open stands for every provider column other than Close (High, Low,
\* Volume): dropna treats them alike.
download(resp) ==
  [i \in 1..resp.n |->
     LET t == resp.start + i - 1 IN
     [ts    |-> t,
      Open  |-> IF resp.gap = i /\ resp.col = "Open" THEN NaN ELSE PointAt(t).close,
      Close |-> IF resp.gap = i /\ resp.col = "Close" THEN NaN ELSE PointAt(t).close]]

\* DataFrame.empty
empty(rows) == Len(rows) = 0

\* self.data['Close'].squeeze(): a one-element column squeezes to a scalar.
squeeze(rows) ==
  IF Len(rows) = 1
    THEN [kind |-> "scalar", v |-> <<>>]
    ELSE [kind |-> "series", v |-> [i \in 1..Len(rows) |-> [ts |-> rows[i].ts, v |-> rows[i].Close]]]

\* Number of non-missing values among the first i of a series.
RECURSIVE Observed(_, _)
Observed(series, i) ==
  IF i = 0 THEN 0
  ELSE Observed(series, i - 1) + (IF series[i].v = NaN THEN 0 ELSE 1)

\* SMAIndicator(close, window=14).sma_indicator()
sma_indicator(series) ==
  [i \in 1..Len(series) |->
     IF i >= Window /\ \A j \in (i - Window + 1)..i : series[j].v # NaN
       THEN PointAt(series[i].ts).sma ELSE NaN]

\* EMAIndicator(close, window=14).ema_indicator()
ema_indicator(series) ==
  [i \in 1..Len(series) |->
     IF Observed(series, i) >= Window THEN PointAt(series[i].ts).ema ELSE NaN]

\* RSIIndicator(close, window=14).rsi()
rsi(series) ==
  [i \in 1..Len(series) |->
     IF i >= Window THEN PointAt(series[i].ts).rsi ELSE NaN]

\* self.data[col] = values
assign(rows, SMA, EMA, RSI) ==
  [i \in 1..Len(rows) |->
     [ts |-> rows[i].ts, Open |-> rows[i].Open, Close |-> rows[i].Close,
      SMA |-> SMA[i], EMA |-> EMA[i], RSI |-> RSI[i]]]

\* A row dropna removes: one with a missing value in any column.
HasNaN(row) == \E c \in DOMAIN row \ {"ts"} : row[c] = NaN

RECURSIVE SelectRows(_, _)
SelectRows(rows, i) ==
  IF i > Len(rows) THEN <<>>
  ELSE (IF HasNaN(rows[i]) THEN <<>> ELSE <<rows[i]>>) \o SelectRows(rows, i + 1)

dropna_head(rows) == IF Len(rows) < Window THEN <<>> ELSE SubSeq(rows, Window, Len(rows))

\* self.data.dropna(inplace=True)
dropna(rows) == SelectRows(rows, 1)

\* Lines 35-37 of fetch_data: the frame with the three indicator columns.
with_indicators(rows, close_prices) ==
  assign(rows, sma_indicator(close_prices), ema_indicator(close_prices), rsi(close_prices))

\* Lines 31-40 of fetch_data on a non-empty frame: the indicator columns,
\* then the row elimination.  On a scalar the indicator library raises
\* (AttributeError) and the frame stays as downloaded.
attach_indicators(rows) ==
  LET close_prices == squeeze(rows) IN
  IF close_prices.kind = "scalar"
    THEN [assigned |-> TRUE, data |-> Frame(rows), raised |-> "AttributeError",
          trace |-> <<"SMA">>]
    ELSE [assigned |-> TRUE, data |-> Frame(dropna(with_indicators(rows, close_prices.v))),
          raised |-> "none", trace |-> <<"SMA", "EMA", "RSI", "dropna">>]

try_block_check_late ==
  [resp \in Responses |->
     IF resp.kind = "raise"
       THEN [assigned |-> FALSE, data |-> None, raised |-> "Exception", trace |-> <<>>]
       ELSE LET rows == download(resp) IN
            IF empty(rows)
              THEN [assigned |-> TRUE, data |-> Frame(dropna(rows)), raised |-> "ValueError",
                    trace |-> <<"SMA", "EMA", "RSI", "dropna">>]
              ELSE attach_indicators(rows)]

\* The try block of fetch_data (lines 27-40), which does not read self.data,
\* for each response of the provider: whether self.data was assigned and the
\* frame it was left with, the exception the block raised, and the steps after
\* the download that were performed.
try_block ==
  [resp \in Responses |->
     IF resp.kind = "raise"
       THEN [assigned |-> FALSE, data |-> None, raised |-> "Exception", trace |-> <<>>]
       ELSE LET rows == download(resp) IN
            IF empty(rows)
              THEN [assigned |-> TRUE, data |-> Frame(rows), raised |-> "ValueError",
                    trace |-> <<>>]
              ELSE attach_indicators(rows)]

\* TradingModel.fetch_data: the frame self.data holds afterwards, how the call
\* ends (every exception of the try block is raised again as ValueError), and
\* the steps it performed.
fetch_data(self_data, resp) ==
  LET r == try_block[resp] IN
  [data   |-> IF r.assigned THEN r.data ELSE self_data,
   status |-> IF r.raised = "none" THEN "ok" ELSE "ValueError",
   trace  |-> r.trace]

\* ------------------------------------------------------------ TradingModel

NoSignal == [action |-> "none", entry |-> Absent, take_profit |-> Absent, stop_loss |-> Absent]

\* Python's < and > on floats: false when either side is nan.
Less(a, b) == a # NaN /\ b # NaN /\ a < b

generate_signal_first_row(self_data, p) ==
  IF self_data.none \/ empty(self_data.rows)
    THEN [status |-> "ValueError", value |-> NoSignal]
    ELSE
      LET last_row == self_data.rows[1] IN
      IF ~ ({"RSI", "Close", "SMA"} \subseteq DOMAIN last_row)
        THEN [status |-> "KeyError", value |-> NoSignal]
        ELSE
          LET close == last_row.Close IN
          IF Less(last_row.RSI, RSI_OVERSOLD) /\ Less(last_row.SMA, close)
            THEN [status |-> "ok",
                  value |-> [action |-> "Buy", entry |-> Some(close),
                             take_profit |-> Some(close + p.stop_loss_pips * p.pip_value),
                             stop_loss |-> Some(close - p.stop_loss_pips * p.pip_value)]]
          ELSE IF Less(RSI_OVERBOUGHT, last_row.RSI) /\ Less(close, last_row.SMA)
            THEN [status |-> "ok",
                  value |-> [action |-> "Sell", entry |-> Some(close),
                             take_profit |-> Some(close - p.stop_loss_pips * p.pip_value),
                             stop_loss |-> Some(close + p.stop_loss_pips * p.pip_value)]]
          ELSE [status |-> "ok",
                value |-> [action |-> "Hold", entry |-> Some(close),
                           take_profit |-> Absent, stop_loss |-> Absent]]

generate_signal_inclusive(self_data, p) ==
  IF self_data.none \/ empty(self_data.rows)
    THEN [status |-> "ValueError", value |-> NoSignal]
    ELSE
      LET last_row == self_data.rows[Len(self_data.rows)] IN
      IF ~ ({"RSI", "Close", "SMA"} \subseteq DOMAIN last_row)
        THEN [status |-> "KeyError", value |-> NoSignal]
        ELSE
          LET close == last_row.Close IN
          IF ~ Less(RSI_OVERSOLD, last_row.RSI) /\ Less(last_row.SMA, close)
            THEN [status |-> "ok",
                  value |-> [action |-> "Buy", entry |-> Some(close),
                             take_profit |-> Some(close + p.stop_loss_pips * p.pip_value),
                             stop_loss |-> Some(close - p.stop_loss_pips * p.pip_value)]]
          ELSE IF ~ Less(last_row.RSI, RSI_OVERBOUGHT) /\ Less(close, last_row.SMA)
            THEN [status |-> "ok",
                  value |-> [action |-> "Sell", entry |-> Some(close),
                             take_profit |-> Some(close - p.stop_loss_pips * p.pip_value),
                             stop_loss |-> Some(close + p.stop_loss_pips * p.pip_value)]]
          ELSE [status |-> "ok",
                value |-> [action |-> "Hold", entry |-> Some(close),
                           take_profit |-> Absent, stop_loss |-> Absent]]

generate_signal_unguarded(self_data, p) ==
  IF self_data.none
    THEN [status |-> "ValueError", value |-> NoSignal]
    ELSE IF empty(self_data.rows)
      THEN [status |-> "IndexError", value |-> NoSignal]
      ELSE [status |-> "ok",
            value |-> [action |-> "Hold",
                       entry |-> Some(self_data.rows[Len(self_data.rows)].Close),
                       take_profit |-> Absent, stop_loss |-> Absent]]

\* TradingModel.generate_signal: how the call ends and the tuple it returns.
\* The last row is indexed for 'RSI', 'Close' and 'SMA'; a frame left without
\* the indicator columns has no 'RSI' and the lookup raises KeyError.
generate_signal(self_data, p) ==
  IF self_data.none \/ empty(self_data.rows)
    THEN [status |-> "ValueError", value |-> NoSignal]
    ELSE
      LET last_row == self_data.rows[Len(self_data.rows)] IN
      IF ~ ({"RSI", "Close", "SMA"} \subseteq DOMAIN last_row)
        THEN [status |-> "KeyError", value |-> NoSignal]
        ELSE
          LET close == last_row.Close IN
          IF Less(last_row.RSI, RSI_OVERSOLD) /\ Less(last_row.SMA, close)
            THEN [status |-> "ok",
                  value |-> [action |-> "Buy", entry |-> Some(close),
                             take_profit |-> Some(close + p.stop_loss_pips * p.pip_value),
                             stop_loss |-> Some(close - p.stop_loss_pips * p.pip_value)]]
          ELSE IF Less(RSI_OVERBOUGHT, last_row.RSI) /\ Less(close, last_row.SMA)
            THEN [status |-> "ok",
                  value |-> [action |-> "Sell", entry |-> Some(close),
                             take_profit |-> Some(close - p.stop_loss_pips * p.pip_value),
                             stop_loss |-> Some(close + p.stop_loss_pips * p.pip_value)]]
          ELSE [status |-> "ok",
                value |-> [action |-> "Hold", entry |-> Some(close),
                           take_profit |-> Absent, stop_loss |-> Absent]]

\* round(num/den) to the nearest integer, ties to the even one (Python's
\* round on a value that is exactly representable), for num >= 0 and den > 0.
RoundHalfEven(num, den) ==
  LET q == num \div den
      r == num % den
  IN  IF 2 * r < den THEN q
      ELSE IF 2 * r > den THEN q + 1
      ELSE IF q % 2 = 0 THEN q ELSE q + 1

calculate_lot_size_needs_data(self_data, p) ==
  IF self_data.none
    THEN [status |-> "ValueError", value |-> 0]
    ELSE [status |-> "ok",
          value |-> RoundHalfEven(100 * (p.account_balance * p.risk_percent) * 100,
                                  1000 * (p.stop_loss_pips * p.pip_value))]

calculate_lot_size_validates(self_data, p) ==
  IF p.risk_percent > 20
    THEN [status |-> "ValueError", value |-> 0]
    ELSE [status |-> "ok",
          value |-> RoundHalfEven(100 * (p.account_balance * p.risk_percent) * 100,
                                  1000 * (p.stop_loss_pips * p.pip_value))]

\* TradingModel.calculate_lot_size, in hundredths of a lot.  risk_amount is
\* account_balance * risk_percent / 1000 dollars and the divisor
\* stop_loss_pips * pip_value / 100 dollars.  self_data is the model's frame,
\* which the method does not read.
calculate_lot_size(self_data, p) ==
  LET risk_amount_num == p.account_balance * p.risk_percent
      risk_amount_den == 1000
      divisor_num == p.stop_loss_pips * p.pip_value
      divisor_den == 100
  IN  [status |-> "ok",
       value |-> RoundHalfEven(100 * risk_amount_num * divisor_den,
                               risk_amount_den * divisor_num)]

\* ----------------------------------------------------------------- actions

NoResponse == [kind |-> "none", n |-> 0, start |-> 0, gap |-> 0, col |-> "Close"]

NoCall == [op |-> "none", status |-> "ok", value |-> <<>>, resp |-> NoResponse, trace |-> <<>>]

\* What is remembered of the fetch_data calls made on the instance so far.
AfterFetch(f, status) ==
  [ever_ok |-> f.ever_ok \/ status = "ok",
   latest  |-> IF status = "ok" THEN "ok" ELSE "failed"]

Init ==
  /\ params \in ParamSets
  /\ data = None
  /\ last = NoCall
  /\ fetched = [ever_ok |-> FALSE, latest |-> "none"]
  /\ pc = "api"
  /\ shown = <<>>
  /\ calls = <<>>

\* model.fetch_data(...)
FetchData ==
  /\ pc = "api"
  /\ \E resp \in Responses :
       LET r == fetch_data(data, resp) IN
       /\ data' = r.data
       /\ last' = [op |-> "fetch_data", status |-> r.status, value |-> <<>>,
                   resp |-> resp, trace |-> r.trace]
       /\ fetched' = AfterFetch(fetched, r.status)
  /\ UNCHANGED <<params, pc, shown, calls>>

\* model.generate_signal()
GenerateSignal ==
  /\ pc = "api"
  /\ LET r == generate_signal(data, params) IN
       last' = [op |-> "generate_signal", status |-> r.status, value |-> r.value,
                resp |-> NoResponse, trace |-> <<>>]
  /\ UNCHANGED <<params, data, fetched, pc, shown, calls>>

\* model.calculate_lot_size()
CalculateLotSize ==
  /\ pc = "api"
  /\ LET r == calculate_lot_size(data, params) IN
       last' = [op |-> "calculate_lot_size", status |-> r.status, value |-> r.value,
                resp |-> NoResponse, trace |-> <<>>]
  /\ UNCHANGED <<params, data, fetched, pc, shown, calls>>

Next == FetchData \/ GenerateSignal \/ CalculateLotSize

Spec == Init /\ [][Next]_vars

\* ------------------------------------------------------------------ main()

\* except ValueError as e: st.error(e).  Any other exception leaves main.
except_ValueError(status) ==
  IF status = "ValueError"
    THEN [pc |-> "error", shown |-> <<"error">>]
    ELSE [pc |-> "crashed", shown |-> <<>>]

\* Lines 97-101: what main writes for a signal.
write_signal(signal) ==
  <<"signal", "entry_price">>
    \o (IF signal.action # "Hold" THEN <<"take_profit", "stop_loss">> ELSE <<>>)

\* Line 88: a run starts with a new model built from the sidebar's inputs.
InitMain ==
  /\ params \in ParamSets
  /\ data = None
  /\ last = NoCall
  /\ fetched = [ever_ok |-> FALSE, latest |-> "none"]
  /\ pc = "fetch"
  /\ shown = <<>>
  /\ calls = <<>>

\* Lines 92-93
MainFetch ==
  /\ pc = "fetch"
  /\ \E resp \in Responses :
       LET r == fetch_data(data, resp)
           e == except_ValueError(r.status)
       IN
       /\ data' = r.data
       /\ last' = [op |-> "fetch_data", status |-> r.status, value |-> <<>>,
                   resp |-> resp, trace |-> r.trace]
       /\ fetched' = AfterFetch(fetched, r.status)
       /\ pc' = IF r.status = "ok" THEN "signal" ELSE e.pc
       /\ shown' = shown \o <<"fetching">> \o (IF r.status = "ok" THEN <<>> ELSE e.shown)
  /\ calls' = Append(calls, "fetch_data")
  /\ UNCHANGED params

\* Lines 96-101
MainSignal ==
  /\ pc = "signal"
  /\ LET r == generate_signal(data, params)
         e == except_ValueError(r.status)
     IN
     /\ last' = [op |-> "generate_signal", status |-> r.status, value |-> r.value,
                 resp |-> NoResponse, trace |-> <<>>]
     /\ pc' = IF r.status = "ok" THEN "lot_size" ELSE e.pc
     /\ shown' = shown \o (IF r.status = "ok" THEN write_signal(r.value) ELSE e.shown)
  /\ calls' = Append(calls, "generate_signal")
  /\ UNCHANGED <<params, data, fetched>>

\* Lines 104-105
MainLotSize ==
  /\ pc = "lot_size"
  /\ LET r == calculate_lot_size(data, params)
         e == except_ValueError(r.status)
     IN
     /\ last' = [op |-> "calculate_lot_size", status |-> r.status, value |-> r.value,
                 resp |-> NoResponse, trace |-> <<>>]
     /\ pc' = IF r.status = "ok" THEN "chart" ELSE e.pc
     /\ shown' = shown \o (IF r.status = "ok" THEN <<"lot_size">> ELSE e.shown)
  /\ calls' = Append(calls, "calculate_lot_size")
  /\ UNCHANGED <<params, data, fetched>>

\* Line 108
MainChart ==
  /\ pc = "chart"
  /\ pc' = "done"
  /\ shown' = Append(shown, "chart")
  /\ UNCHANGED <<params, data, last, fetched, calls>>

NextMain == MainFetch \/ MainSignal \/ MainLotSize \/ MainChart

SpecMain == InitMain /\ [][NextMain]_vars

\* -------------------------------------------------------------- properties

\* The frame holds a series with the indicator columns and at least one row.
Loaded == ~ data.none /\ ~ empty(data.rows) /\ "RSI" \in DOMAIN data.rows[1]

LatestRow == data.rows[Len(data.rows)]

PipDistance == params.stop_loss_pips * params.pip_value

BuyCondition == LatestRow.RSI < RSI_OVERSOLD /\ LatestRow.Close > LatestRow.SMA

SellCondition == LatestRow.RSI > RSI_OVERBOUGHT /\ LatestRow.Close < LatestRow.SMA

SignalReturned == last.op = "generate_signal" /\ last.status = "ok"

FetchSucceeded == last.op = "fetch_data" /\ last.status = "ok"

\* C1: on a non-empty series generate_signal returns Buy exactly when the
\* latest row has rsi < 30 and close > sma, Sell exactly when it has rsi > 70
\* and close < sma, with entry = close and take profit / stop loss at
\* stop_loss_pips * pip_value above and below close (Buy) or below and above
\* it (Sell); nothing but the latest row is read.
C1_BuySellFromLatestRow ==
  (last.op = "generate_signal" /\ Loaded) =>
     /\ last.status = "ok"
     /\ last.value.action = "Buy" <=> BuyCondition
     /\ last.value.action = "Sell" <=> SellCondition
     /\ last.value.action = "Buy" =>
          /\ last.value.entry = Some(LatestRow.Close)
          /\ last.value.take_profit = Some(LatestRow.Close + PipDistance)
          /\ last.value.stop_loss = Some(LatestRow.Close - PipDistance)
     /\ last.value.action = "Sell" =>
          /\ last.value.entry = Some(LatestRow.Close)
          /\ last.value.take_profit = Some(LatestRow.Close - PipDistance)
          /\ last.value.stop_loss = Some(LatestRow.Close + PipDistance)

\* A Buy was returned from a series whose first row alone would give a Sell.
C1_Witness ==
  /\ SignalReturned /\ Loaded
  /\ last.value.action = "Buy"
  /\ Len(data.rows) >= 2
  /\ data.rows[1].RSI > RSI_OVERBOUGHT /\ data.rows[1].Close < data.rows[1].SMA

\* C2: when the latest row meets neither the Buy nor the Sell condition,
\* generate_signal returns Hold with entry = close and no take profit and no
\* stop loss; rsi of exactly 30 or exactly 70 always gives Hold.
C2_HoldOtherwise ==
  (last.op = "generate_signal" /\ Loaded) =>
     /\ (~ BuyCondition /\ ~ SellCondition) =>
          /\ last.status = "ok"
          /\ last.value.action = "Hold"
          /\ last.value.entry = Some(LatestRow.Close)
          /\ last.value.take_profit = Absent
          /\ last.value.stop_loss = Absent
     /\ LatestRow.RSI \in {RSI_OVERSOLD, RSI_OVERBOUGHT} => last.value.action = "Hold"
     /\ (LatestRow.RSI < RSI_OVERSOLD /\ LatestRow.Close <= LatestRow.SMA) =>
          last.value.action = "Hold"
     /\ (LatestRow.RSI > RSI_OVERBOUGHT /\ LatestRow.Close >= LatestRow.SMA) =>
          last.value.action = "Hold"

\* Hold was returned at rsi = 30 with close above sma.
C2_Witness ==
  /\ SignalReturned /\ Loaded
  /\ last.value.action = "Hold"
  /\ LatestRow.RSI = RSI_OVERSOLD
  /\ LatestRow.Close > LatestRow.SMA

\* C3: as long as no fetch_data has succeeded on the instance, generate_signal
\* fails with the not-ready error (ValueError, the type main handles).
C3_NotReadyBeforeAnySuccessfulFetch ==
  (last.op = "generate_signal" /\ ~ fetched.ever_ok) => last.status = "ValueError"

\* C4: when the provider returns an empty series, fetch_data fails with the
\* data-unavailable error (ValueError) having computed no indicator and
\* eliminated no row.
C4_EmptyFetchFailsFirst ==
  (last.op = "fetch_data" /\ last.resp.kind = "series" /\ last.resp.n = 0) =>
     /\ last.status = "ValueError"
     /\ last.trace = <<>>

\* fetch_data was called on a loaded model and the provider returned nothing.
C4_Witness ==
  /\ last.op = "fetch_data" /\ last.resp.kind = "series" /\ last.resp.n = 0
  /\ fetched.ever_ok

\* The provider's columns of a row.
Strip(row) == [ts |-> row.ts, Open |-> row.Open, Close |-> row.Close]

Provided == download(last.resp)

NoMissingIndicator ==
  \A i \in 1..Len(data.rows) :
     data.rows[i].SMA # NaN /\ data.rows[i].EMA # NaN /\ data.rows[i].RSI # NaN

ContiguousSuffix ==
  /\ Len(data.rows) <= Len(Provided)
  /\ \A i \in 1..Len(data.rows) :
       Strip(data.rows[i]) = Provided[Len(Provided) - Len(data.rows) + i]

RowsInOrder ==
  /\ \A i \in 1..Len(data.rows) : \E j \in 1..Len(Provided) : Strip(data.rows[i]) = Provided[j]
  /\ \A i \in 1..Len(data.rows) : \A k \in 1..Len(data.rows) :
       i < k => data.rows[i].ts < data.rows[k].ts

ProvidedComplete ==
  \A j \in 1..Len(Provided) : Provided[j].Open # NaN /\ Provided[j].Close # NaN

\* C5 as claimed: after a successful fetch_data no retained row has a missing
\* SMA, EMA or RSI and the retained rows are a contiguous suffix of the
\* provider's series.
C5_RetainedIsContiguousSuffix ==
  FetchSucceeded => (NoMissingIndicator /\ ContiguousSuffix)

\* C5 as amended: after a successful fetch_data no retained row has a missing
\* SMA, EMA or RSI and the retained rows are rows of the provider's series in
\* the same timestamp order; they are a contiguous suffix of it when no row
\* of the provider's series has a missing value.
C5_RetainedInOrderSuffixWhenComplete ==
  FetchSucceeded =>
     /\ NoMissingIndicator
     /\ RowsInOrder
     /\ ProvidedComplete => ContiguousSuffix

\* A complete series of more than 14 bars was fetched: several rows are
\* retained and the leading ones were removed.
C5_Witness ==
  /\ FetchSucceeded /\ ProvidedComplete
  /\ Len(data.rows) >= 2
  /\ Len(data.rows) < Len(Provided)

\* The lot size the formula gives, in hundredths of a lot:
\* round(account_balance * (risk_percent/100) / (stop_loss_pips * pip_value), 2).
LotSizeFormula ==
  RoundHalfEven(10 * params.account_balance * params.risk_percent,
                params.stop_loss_pips * params.pip_value)

\* C6: calculate_lot_size returns the value of the formula in every state of
\* the model, the Empty state included, without an error, and leaves the
\* model's series as it was.
C6_LotSizeInEveryState ==
  /\ [](last.op = "calculate_lot_size" =>
          (last.status = "ok" /\ last.value = LotSizeFormula))
  /\ [][last'.op = "calculate_lot_size" => (data' = data /\ params' = params)]_vars

\* calculate_lot_size was called on a model that holds no series.
C6_Witness ==
  /\ last.op = "calculate_lot_size" /\ last.status = "ok"
  /\ data.none

Results == {"signal", "entry_price", "take_profit", "stop_loss", "lot_size", "chart"}

CoreOrder == <<"fetch_data", "generate_signal", "calculate_lot_size">>

\* C7: a run calls fetch_data, generate_signal and calculate_lot_size in that
\* order; when one of them raises, the run shows the error, takes no further
\* step and has shown no result.
C7_RunOrderAndNoPartialResult ==
  /\ Len(calls) <= Len(CoreOrder)
  /\ calls = SubSeq(CoreOrder, 1, Len(calls))
  /\ last.status # "ok" =>
       /\ pc = "error"
       /\ shown = <<"fetching", "error">>
       /\ last.op = calls[Len(calls)]
       /\ ~ ENABLED NextMain
  /\ (\E i \in 1..Len(shown) : shown[i] = "error") =>
       (\A i \in 1..Len(shown) : shown[i] \notin Results)

\* A run whose fetch succeeded and whose generate_signal raised.
C7_Witness ==
  /\ pc = "error"
  /\ calls = <<"fetch_data", "generate_signal">>
  /\ last.status = "ValueError"

\* C8: after a fetch_data call that failed the model keeps no series from an
\* earlier fetch, and generate_signal returns no signal.
C8_FailedFetchDiscardsSeries ==
  fetched.latest = "failed" => (~ Loaded /\ ~ SignalReturned)

WithIndicators == with_indicators(Provided, squeeze(Provided).v)

\* C10: after a successful fetch_data a row of the provider's series is
\* retained exactly when its Close, SMA, EMA and RSI are all present.
C10_RemovedIffIndicatorMissing ==
  FetchSucceeded =>
     \A j \in 1..Len(Provided) :
        (\E i \in 1..Len(data.rows) : data.rows[i].ts = Provided[j].ts)
          <=> (/\ WithIndicators[j].Close # NaN
               /\ WithIndicators[j].SMA # NaN
               /\ WithIndicators[j].EMA # NaN
               /\ WithIndicators[j].RSI # NaN)

====
